---- MODULE Spec2Model ----
(***************************************************************************)
(* DUNE: topology-to-infrastructure compiler (src/dune/__init__.py,        *)
(* src/topology.py, src/infrastructure.py).                                *)
(*                                                                         *)
(* The state is one Dune instance after construction: its Topo, its Infra, *)
(* the cached placement (_allocation) and the per-host command phases      *)
(* (_configs).  The operations are the public calls allocate() and         *)
(* build(); each is one action and is modelled whole, exceptions included: *)
(* an exception leaves the mutations made before it and is recorded in     *)
(* `raised`.  Command strings are modelled as records holding the values   *)
(* substituted in the f-strings of the source.                             *)
(*                                                                         *)
(* popLog, linkCalls and cmdLog are instrumentation: the order in which    *)
(* core IDs are popped, the calls made to _add_link, and the commands in   *)
(* the order _phynode_exec and _add_setup append them; nAllocs, nBuilds    *)
(* and nDumps count the calls of allocate(), build() and dump().           *)
(*                                                                         *)
(* document and stage describe the construction Dune(base, topo): the      *)
(* parsed YAML document and whether the constructor has run, returned,    *)
(* exited or raised.  files is what dump() has written under .dune/.  env  *)
(* and nenv are the argument and the result of _expand_env in _add_node.   *)
(***************************************************************************)
EXTENDS Integers, Sequences, FiniteSets, TLC

VARIABLES topo, infra, allocation, configs, popLog, linkCalls, raised, ret, nAllocs, nBuilds,
          cmdLog, files, nDumps, document, stage, env, nenv

vars == <<topo, infra, allocation, configs, popLog, linkCalls, raised, ret, nAllocs, nBuilds,
          cmdLog, files, nDumps, document, stage, env, nenv>>

(***************************************************************************)
(* Bounds of the model.                                                    *)
(***************************************************************************)
MaxCores == 2
MaxNodes == 2
MaxLinks == 2
MaxAllocs == 2
MaxBuilds == 1
MaxDumps == 1
MaxLen == 2
MaxSlots == 3

(***************************************************************************)
(* Python values.                                                          *)
(***************************************************************************)
None == "None"
NoError == "none"

\* The stages of Dune(base, topo): not yet called, returned, or left by exit(1).
New == "new"
Constructed == "constructed"
Exited == "exited"
Failed == "failed"

NodeNames == <<"A", "B", "C", "D">>
PhyNames == <<"h1", "h2", "h3">>

RECURSIVE SeqSum(_)
SeqSum(s) == IF s = <<>> THEN 0 ELSE Head(s) + SeqSum(Tail(s))

RECURSIVE Concat(_)
Concat(ss) == IF ss = <<>> THEN <<>> ELSE Head(ss) \o Concat(Tail(ss))

Contains(s, x) == \E i \in 1..Len(s) : s[i] = x

Min(a, b) == IF a < b THEN a ELSE b

Range(s) == {s[i] : i \in 1..Len(s)}

IndexOf(s, x) == CHOOSE i \in 1..Len(s) : s[i] = x /\ \A j \in 1..(i - 1) : s[j] # x

(***************************************************************************)
(* topology.py: Pinned and Node.                                           *)
(* A Pinned is [environ, down]; environ is the sequence of the core_N      *)
(* slots its environment templates reference, in the order _get_cores      *)
(* meets them.                                                             *)
(***************************************************************************)
RECURSIVE CollectSlots(_, _)
CollectSlots(acc, refs) ==
    IF refs = <<>> THEN acc
    ELSE CollectSlots(IF Contains(acc, Head(refs)) THEN acc ELSE Append(acc, Head(refs)),
                      Tail(refs))

\* Pinned._get_cores: the dict of slots, core_0 first, as its keys in insertion order.
PinnedGetCores(p) == CollectSlots(<<0>>, p.environ)

PinnedGetNCores(p) == Len(PinnedGetCores(p))

\* Node._get_cores: one slot dict per pinned process.
NodeGetCores(node) == [i \in 1..Len(node.pinned) |-> PinnedGetCores(node.pinned[i])]

NodeGetNCores(node) == SeqSum([i \in 1..Len(node.pinned) |-> Len(NodeGetCores(node)[i])])

(***************************************************************************)
(* topology.py: Topo.  Links are parsed before nodes, so the graph's node  *)
(* order is: link endpoints in order of first appearance, then the other   *)
(* declared nodes in declaration order.                                    *)
(***************************************************************************)
RECURSIVE AddNodes(_, _)
AddNodes(order, ids) ==
    IF ids = <<>> THEN order
    ELSE AddNodes(IF Contains(order, Head(ids)) THEN order ELSE Append(order, Head(ids)),
                  Tail(ids))

\* _parse_links: a link's attributes are its own fields plus the missing defaults.
MergeDefaults(attrs, defaults) ==
    [k \in DOMAIN attrs \cup DOMAIN defaults |->
        IF k \in DOMAIN attrs THEN attrs[k] ELSE defaults[k]]

ParseLinks(links, defaults) ==
    [order |-> AddNodes(<<>>, Concat([i \in 1..Len(links) |-> <<links[i].head, links[i].tail>>])),
     edges |-> Concat([i \in 1..Len(links) |->
                 LET data == MergeDefaults(links[i].attrs, defaults) IN
                 << [head |-> links[i].head, tail |-> links[i].tail,
                     key |-> <<links[i].hi, links[i].ti>>, data |-> data],
                    [head |-> links[i].tail, tail |-> links[i].head,
                     key |-> <<links[i].ti, links[i].hi>>, data |-> data] >>])]

ParseNodes(order, declared) == AddNodes(order, declared)

TopoTotalCores(declared, cfg) ==
    SeqSum([i \in 1..Len(declared) |-> NodeGetNCores(cfg[declared[i]])])

\* Topo._load_topo: the graph after _parse_links then _parse_nodes.
LoadTopo(declared, cfg, links, defaults) ==
    LET parsed == ParseLinks(links, defaults) IN
    [nodes |-> ParseNodes(parsed.order, declared),
     declared |-> declared,
     cfg |-> cfg,
     links |-> links,
     edges |-> parsed.edges,
     total_cores |-> TopoTotalCores(declared, cfg)]

\* MultiDiGraph.edges(keys=True, data=True): by source node in graph order, then by
\* neighbour in order of first edge, then by key in insertion order.
TopoEdges(t) ==
    Concat([i \in 1..Len(t.nodes) |->
        LET outs == SelectSeq(t.edges, LAMBDA e : e.head = t.nodes[i])
            nbrs == AddNodes(<<>>, [j \in 1..Len(outs) |-> outs[j].tail])
        IN Concat([j \in 1..Len(nbrs) |-> SelectSeq(outs, LAMBDA e : e.tail = nbrs[j])])])

(***************************************************************************)
(* infrastructure.py: Infra.  An entry of _cores[host] is a core group (a  *)
(* list) when cores is declared as a list of lists, and a bare integer     *)
(* when cores is declared as an integer N: list(range(1, N)).              *)
(***************************************************************************)
Group(ids) == [isList |-> TRUE, ids |-> ids]
IntEntry(n) == [isList |-> FALSE, ids |-> <<n>>]

\* Infra._load_nodes for one host: its _cores entry and what it adds to _total_cores.
LoadCores(decl) ==
    IF decl.isInt
    THEN [cores |-> [i \in 1..(decl.n - 1) |-> IntEntry(i)], total |-> decl.n]
    ELSE [cores |-> [i \in 1..Len(decl.groups) |-> Group(decl.groups[i])],
          total |-> SeqSum([i \in 1..Len(decl.groups) |-> Len(decl.groups[i])])]

LoadInfra(phynodes, decl, pre, post) ==
    [phynodes |-> phynodes,
     cores |-> [p \in Range(phynodes) |-> LoadCores(decl[p]).cores],
     total_cores |-> SeqSum([i \in 1..Len(phynodes) |-> LoadCores(decl[phynodes[i]]).total]),
     pre |-> pre,
     post |-> post]

(***************************************************************************)
(* dune/__init__.py: Dune.allocate.                                        *)
(***************************************************************************)
\* sorted(..., key=count, reverse=True): descending and stable, so equal counts keep
\* the order of topo.nodes.
RECURSIVE SortedDesc(_, _, _)
SortedDesc(sorted, ids, cnt) ==
    IF ids = <<>> THEN sorted
    ELSE LET x == Head(ids)
             before == SelectSeq(sorted, LAMBDA y : cnt[y] >= cnt[x])
             after == SelectSeq(sorted, LAMBDA y : cnt[y] < cnt[x])
         IN SortedDesc(before \o <<x>> \o after, Tail(ids), cnt)

\* The nodes in graph order, as they would be placed without the sort of lines 95-98.
UnsortedOrder(t) == t.nodes

AllocationOrder(t) ==
    SortedDesc(<<>>, t.nodes, [n \in Range(t.nodes) |-> NodeGetNCores(t.cfg[n])])

\* A pool that is the Infra's own lists, as `available = self.infra._cores` would be.
SharedPool(cores) == [shared |-> TRUE, pool |-> cores]

\* available = deepcopy(self.infra._cores): a private pool, not shared with the Infra.
AvailablePool(cores) == [shared |-> FALSE, pool |-> cores]

\* Any group that is not empty taken for a process, as `len(numa) > 0` would.
NotEmpty(count, process) == 1

\* The size a group must have to be taken for a process: `len(numa) >= count`, where
\* count is the total of the node being placed.
FitThreshold(count, process) == count

\* The scan of lines 104-113: hosts in inventory order, each host's entries in order,
\* entries that are not lists skipped; the first group that is large enough.
FirstFit(pool, phynodes, need) ==
    LET slots == UNION {{<<i, j>> : j \in 1..Len(pool[phynodes[i]])} : i \in 1..Len(phynodes)}
        fits == {c \in slots :
                    /\ pool[phynodes[c[1]]][c[2]].isList
                    /\ Len(pool[phynodes[c[1]]][c[2]].ids) >= need}
    IN IF fits = {} THEN [found |-> FALSE, host |-> 0, group |-> 0]
       ELSE LET c == CHOOSE c \in fits : \A o \in fits :
                        c[1] < o[1] \/ (c[1] = o[1] /\ c[2] <= o[2])
            IN [found |-> TRUE, host |-> c[1], group |-> c[2]]

\* [numa.pop() for _ in process]: one pop from the end of the group per slot.
PopCores(ids, n) ==
    [popped |-> [k \in 1..n |-> ids[Len(ids) - k + 1]],
     rest |-> SubSeq(ids, 1, Len(ids) - n)]

\* The phynode recorded for the node after one more of its processes has been given
\* cores on `phynode` (line 112).
RecordPhynode(phynode0, phynode) == phynode

\* One iteration of `for process in ..._get_cores()` (lines 102-113).
AllocProcess(a, phynodes, node, idx, process, count) ==
    LET fit == FirstFit(a.pool, phynodes, FitThreshold(count, process)) IN
    IF a.raised # NoError \/ ~fit.found THEN a
    ELSE LET pid == phynodes[fit.host]
             ids == a.pool[pid][fit.group].ids
             n == Len(process)
         IN IF n > Len(ids)
            THEN [a EXCEPT !.raised = "IndexError"]
            ELSE LET pop == PopCores(ids, n) IN
                 [a EXCEPT !.pool[pid][fit.group].ids = pop.rest,
                           !.alloc = Append(@, pop.popped),
                           !.phynode0 = RecordPhynode(@, pid),
                           !.log = @ \o [k \in 1..n |->
                                       [node |-> node, proc |-> idx, phynode |-> pid,
                                        group |-> fit.group, core |-> pop.popped[k]]]]

RECURSIVE AllocProcesses(_, _, _, _, _, _)
AllocProcesses(a, phynodes, node, procs, idx, count) ==
    IF idx > Len(procs) THEN a
    ELSE AllocProcesses(AllocProcess(a, phynodes, node, idx, procs[idx], count),
                        phynodes, node, procs, idx + 1, count)

\* The body of the loop over the sorted nodes (lines 100-114).
AllocNode(a, t, phynodes, node) ==
    LET start == [a EXCEPT !.alloc = <<>>, !.phynode0 = None]
        done == AllocProcesses(start, phynodes, node, NodeGetCores(t.cfg[node]), 1,
                               NodeGetNCores(t.cfg[node]))
    IN IF done.raised # NoError THEN done
       ELSE [done EXCEPT !.map = [n \in DOMAIN done.map \cup {node} |->
                IF n = node THEN [phynode |-> done.phynode0, cores |-> done.alloc]
                ELSE done.map[n]]]

RECURSIVE AllocNodes(_, _, _, _)
AllocNodes(a, t, phynodes, order) ==
    IF order = <<>> \/ a.raised # NoError THEN a
    ELSE AllocNodes(AllocNode(a, t, phynodes, Head(order)), t, phynodes, Tail(order))

NoAllocation == [isNone |-> TRUE, map |-> <<>>]

\* Dune.allocate on the Dune state d = [allocation, cores, configs, popLog, linkCalls,
\* cmdLog, raised, ret]; cores is infra._cores.
allocate(d, t, phynodes) ==
    IF ~d.allocation.isNone THEN [d EXCEPT !.ret = d.allocation]
    ELSE LET available == AvailablePool(d.cores)
             run == AllocNodes([pool |-> available.pool, map |-> <<>>, alloc |-> <<>>,
                                phynode0 |-> None, log |-> d.popLog, raised |-> NoError],
                               t, phynodes, AllocationOrder(t))
             placed == [isNone |-> FALSE, map |-> run.map]
         IN [d EXCEPT !.allocation = placed,
                      !.cores = IF available.shared THEN run.pool ELSE d.cores,
                      !.popLog = run.log,
                      !.raised = run.raised,
                      !.ret = IF run.raised = NoError THEN placed ELSE @]

(***************************************************************************)
(* dune/__init__.py: the command helpers.  Every helper returns the Dune   *)
(* state unchanged once an exception is pending (d.raised), which is how   *)
(* an exception leaves build().                                            *)
(***************************************************************************)
Nodes == "Nodes"
Links == "Links"
Processes == "Processes"
Down == "Down"
Pre == "PreSetup"
Post == "PostSetup"

Raise(d, e) == IF d.raised # NoError THEN d ELSE [d EXCEPT !.raised = e]

\* The `except TypeError` branch of _node_to_phynode: with no placement yet
\* (_allocation is None) allocate() is called, its return value dropped.  build()
\* reaches it in its first statement, the _node_to_phynode of the first node.
AllocateOnDemand(d) ==
    IF d.raised = NoError /\ d.allocation.isNone
    THEN [allocate(d, topo, infra.phynodes) EXCEPT !.ret = d.ret]
    ELSE d

\* _node_to_phynode once a placement exists: the host recorded for nid; a nid missing
\* from the placement is a KeyError.
NodeToPhynode(d, nid) ==
    IF d.raised # NoError THEN [d |-> d, pid |-> None]
    ELSE IF nid \notin DOMAIN d.allocation.map THEN [d |-> Raise(d, "KeyError"), pid |-> None]
    ELSE [d |-> d, pid |-> d.allocation.map[nid].phynode]

\* _phynode_exec: append cmd to _configs[pid][section], creating either level if missing.
PhynodeExec(d, pid, section, cmd) ==
    IF d.raised # NoError THEN d
    ELSE LET old == IF pid \in DOMAIN d.configs THEN d.configs[pid] ELSE <<>>
             new == [s \in DOMAIN old \cup {section} |->
                        IF s = section
                        THEN (IF s \in DOMAIN old THEN Append(old[s], cmd) ELSE <<cmd>>)
                        ELSE old[s]]
         IN [d EXCEPT !.configs = [p \in DOMAIN d.configs \cup {pid} |->
                                      IF p = pid THEN new ELSE d.configs[p]],
                      !.cmdLog = Append(@, [pid |-> pid, section |-> section, cmd |-> cmd])]

\* _node_exec: `{environ}ip netns exec {nid} bash -c "{cmd}"` on the host of nid.
NodeExec(d, nid, section, cmd, environ) ==
    LET r == NodeToPhynode(d, nid) IN
    PhynodeExec(r.d, r.pid, section,
                [kind |-> "netns_exec", ns |-> nid, environ |-> environ, cmd |-> cmd])

\* _ip: `ip -n {nid} {cmd}` on the host of nid.
Ip(d, section, cmd, nid) ==
    LET r == NodeToPhynode(d, nid) IN
    PhynodeExec(r.d, r.pid, section, [kind |-> "ip", ns |-> nid, cmd |-> cmd])

\* _sysctl: `sysctl -w {sysctl}={value}` in the namespace of nid.
Sysctl(d, nid, section, name, value) ==
    LET r == NodeToPhynode(d, nid) IN
    NodeExec(r.d, nid, section, [op |-> "sysctl -w", name |-> name, value |-> value], <<>>)

RECURSIVE IpAddrs(_, _, _, _, _)
\* `for addr in addrs: self._ip(section, f'a add {addr} dev {dev}', nid)`
IpAddrs(d, section, addrs, dev, nid) ==
    IF d.raised # NoError \/ addrs = <<>> THEN d
    ELSE IpAddrs(Ip(d, section, [op |-> "a add", addr |-> Head(addrs), dev |-> dev], nid),
                 section, Tail(addrs), dev, nid)

\* node._addresses.get(iface): None when the interface has no addresses; an
\* AttributeError when the node declares no `addrs` at all (_addresses is None).
AddressesGet(d, nid, iface) ==
    LET a == topo.cfg[nid].addrs IN
    IF ~a.declared THEN [d |-> Raise(d, "AttributeError"), addrs |-> <<>>]
    ELSE [d |-> d, addrs |-> IF iface \in DOMAIN a.ifs THEN a.ifs[iface] ELSE <<>>]

\* Every slot bound to the last ID of the core list, as `cores[-1]` would.
LastCore(slots, cores, slot) == cores[Len(cores)]

\* Which popped core ID a slot is bound to in _node_pinned: the idx-th slot of the
\* process's slot dict gets the idx-th ID of its core list.
SlotCore(slots, cores, slot) == cores[IndexOf(slots, slot)]

\* _node_pinned: the launch command of the idx-th pinned process, bound to core_0, and
\* its teardown command if it declares one.
NodePinned(d, nid, pinned, idx) ==
    IF d.raised # NoError THEN d
    ELSE LET lists == d.allocation.map[nid].cores IN
         IF idx > Len(lists) THEN Raise(d, "IndexError")
         ELSE LET cores == lists[idx]
                  slots == PinnedGetCores(pinned)
              IN IF Len(slots) > Len(cores) THEN Raise(d, "IndexError")
                 ELSE LET environ == [i \in 1..Len(pinned.environ) |->
                                         SlotCore(slots, cores, pinned.environ[i])]
                          launched == NodeExec(d, nid, Processes,
                                               [op |-> "taskset -c",
                                                core |-> SlotCore(slots, cores, 0),
                                                node |-> nid, idx |-> idx],
                                               environ)
                      IN IF pinned.down
                         THEN NodeExec(launched, nid, Down,
                                       [op |-> "down", node |-> nid, idx |-> idx], <<>>)
                         ELSE launched

RECURSIVE NodePinnedAll(_, _, _, _)
NodePinnedAll(d, nid, pinned, idx) ==
    IF d.raised # NoError \/ idx > Len(pinned) THEN d
    ELSE NodePinnedAll(NodePinned(d, nid, pinned[idx], idx), nid, pinned, idx + 1)

RECURSIVE NodeExecs(_, _, _)
NodeExecs(d, nid, execs) ==
    IF d.raised # NoError \/ execs = <<>> THEN d
    ELSE NodeExecs(NodeExec(d, nid, Nodes, [op |-> "exec", text |-> Head(execs), node |-> nid],
                            <<>>),
                   nid, Tail(execs))

RECURSIVE NodeSysctls(_, _, _)
NodeSysctls(d, nid, sysctls) ==
    IF d.raised # NoError \/ sysctls = <<>> THEN d
    ELSE NodeSysctls(Sysctl(d, nid, Nodes, Head(sysctls)[1], Head(sysctls)[2]),
                     nid, Tail(sysctls))

\* _add_node with the loopback brought up before its addresses are assigned, as if
\* line 237 stood before line 221.
UpBeforeAddrs(d, nid) ==
    LET node == topo.cfg[nid]
        r == NodeToPhynode(d, nid)
        created == PhynodeExec(r.d, r.pid, Nodes, [kind |-> "ip netns add", node |-> nid])
        up == Ip(created, Nodes, [op |-> "l set up", dev |-> "lo"], nid)
        lo == AddressesGet(up, nid, "lo")
        addressed == IpAddrs(lo.d, Nodes, lo.addrs, "lo", nid)
        execd == NodeExecs(addressed, nid, node.execs)
        tuned == NodeSysctls(execd, nid, node.sysctls)
    IN NodePinnedAll(tuned, nid, node.pinned, 1)

\* _add_node: namespace, loopback addresses, loopback up, execs, sysctls, pinned
\* processes.  Nodes of the model declare no templates (None) or the empty map, and no
\* free-form fields, so lines 255-273 render nothing and append nothing.
AddNode(d, nid) ==
    LET node == topo.cfg[nid]
        r == NodeToPhynode(d, nid)
        created == PhynodeExec(r.d, r.pid, Nodes, [kind |-> "ip netns add", node |-> nid])
        lo == AddressesGet(created, nid, "lo")
        addressed == IpAddrs(lo.d, Nodes, lo.addrs, "lo", nid)
        up == Ip(addressed, Nodes, [op |-> "l set up", dev |-> "lo"], nid)
        execd == NodeExecs(up, nid, node.execs)
        tuned == NodeSysctls(execd, nid, node.sysctls)
    IN NodePinnedAll(tuned, nid, node.pinned, 1)

RECURSIVE AddNodesAll(_, _)
AddNodesAll(d, nids) ==
    IF d.raised # NoError \/ nids = <<>> THEN d ELSE AddNodesAll(AddNode(d, Head(nids)), Tail(nids))

(***************************************************************************)
(* dune/__init__.py: Dune._add_link, Dune._add_setup, Dune.build.          *)
(***************************************************************************)
\* A veth pair whatever the hosts of the two ends, as without the test of line 331.
AlwaysVeth(head_phynode, tail_phynode) == "veth"

\* The two-way choice of _add_link: a veth pair when both ends are on one host; else
\* the VLAN branch, which calls self._get_node_idx, a method Dune does not define.
LinkKind(head_phynode, tail_phynode) ==
    IF head_phynode = tail_phynode THEN "veth" ELSE "vlan"

\* `delay = data['latency'] if 'latency' in data else '0ms'`, and the same for bw.
ShapingOf(data) ==
    [delay |-> IF "latency" \in DOMAIN data THEN data["latency"] ELSE "0ms",
     rate |-> IF "bw" \in DOMAIN data THEN data["bw"] ELSE "1gbit"]

AddLink(d0, head, tail, ifaces, data) ==
    IF d0.raised # NoError THEN d0
    ELSE
    LET h == NodeToPhynode(d0, head)
        t == NodeToPhynode(h.d, tail)
        call == [head |-> head, tail |-> tail, key |-> ifaces,
                 head_phynode |-> h.pid, tail_phynode |-> t.pid, returned |-> FALSE]
        d == [t.d EXCEPT !.linkCalls = Append(@, call)]
        head_iface == ifaces[1]
        tail_iface == ifaces[2]
        linked == IF LinkKind(h.pid, t.pid) = "veth"
                  THEN PhynodeExec(d, h.pid, Links,
                                   [kind |-> "veth", dev |-> head_iface, netns |-> head,
                                    peer |-> tail_iface, peerns |-> tail])
                  ELSE Raise(d, "AttributeError")
        shaping == ShapingOf(data)
        shaped == NodeExec(linked, head, Links,
                           [op |-> "tc netem", dev |-> head_iface,
                            delay |-> shaping.delay, rate |-> shaping.rate], <<>>)
        sized == IF "mtu" \in DOMAIN data
                 THEN Ip(Ip(shaped, Links,
                            [op |-> "l set mtu", dev |-> head_iface, mtu |-> data["mtu"]], head),
                         Links, [op |-> "l set mtu", dev |-> tail_iface, mtu |-> data["mtu"]],
                         tail)
                 ELSE shaped
        ha == AddressesGet(sized, head, head_iface)
        haddr == IpAddrs(ha.d, Links, ha.addrs, head_iface, head)
        ta == AddressesGet(haddr, tail, tail_iface)
        taddr == IpAddrs(ta.d, Links, ta.addrs, tail_iface, tail)
        hup == Ip(taddr, Links, [op |-> "l set up", dev |-> head_iface], head)
        tup == Ip(hup, Links, [op |-> "l set up", dev |-> tail_iface], tail)
    IN IF tup.raised # NoError THEN tup
       ELSE [tup EXCEPT !.linkCalls[Len(d.linkCalls)].returned = TRUE]

\* The test of build() that lets a directed edge through to _add_link: neither of its
\* interfaces has been seen on its node.
LinkIsNew(iface_set, head, tail, ifaces) ==
    /\ ~Contains(iface_set[head], ifaces[1])
    /\ ~Contains(iface_set[tail], ifaces[2])

RECURSIVE AddLinks(_, _, _)
\* The loop of build() over topo.edges(keys=True, data=True) with its iface_set.
AddLinks(d, edges, iface_set) ==
    IF edges = <<>> \/ d.raised # NoError THEN d
    ELSE LET e == Head(edges)
             seen == [n \in DOMAIN iface_set \cup {e.head, e.tail} |->
                         IF n \in DOMAIN iface_set THEN iface_set[n] ELSE <<>>]
         IN IF LinkIsNew(seen, e.head, e.tail, e.key)
            THEN LET withHead == [seen EXCEPT ![e.head] = Append(@, e.key[1])]
                     withBoth == [withHead EXCEPT ![e.tail] = Append(@, e.key[2])]
                 IN AddLinks(AddLink(d, e.head, e.tail, e.key, e.data), Tail(edges), withBoth)
            ELSE AddLinks(d, Tail(edges), seen)

RECURSIVE AppendToAll(_, _, _, _)
\* `for phynode in phynodes:` of _add_setup: cmd appended to the section of every host
\* that has an entry in _configs.
AppendToAll(d, pids, section, cmd) ==
    IF d.raised # NoError \/ pids = {} THEN d
    ELSE LET p == CHOOSE p \in pids : TRUE IN
         AppendToAll(PhynodeExec(d, p, section, cmd), pids \ {p}, section, cmd)

\* Every entry of the setup list taken for a command, as without the test of line 374.
AnyEntry(entry) == TRUE

\* `if k == "inline": cmd = v` / `else: continue`: only inline entries are commands.
IsInline(entry) == entry.kind = "inline"

RECURSIVE AddSetupCmds(_, _, _)
AddSetupCmds(d, section, setup) ==
    IF setup = <<>> \/ d.raised # NoError THEN d
    ELSE AddSetupCmds(IF IsInline(Head(setup))
                      THEN AppendToAll(d, DOMAIN d.configs, section,
                                       [kind |-> "setup", cmd |-> Head(setup).cmd])
                      ELSE d,
                      section, Tail(setup))

\* _add_setup: the inline pre (or post) commands of the Infra, on every host of _configs.
AddSetup(d, section) ==
    IF section \notin {Pre, Post} THEN d
    ELSE AddSetupCmds(d, section, IF section = Pre THEN infra.pre ELSE infra.post)

\* Dune.build.
build(d) ==
    LET nodes == AddNodesAll(AllocateOnDemand(d), topo.nodes)
        linked == AddLinks(nodes, TopoEdges(topo), <<>>)
    IN AddSetup(AddSetup(linked, Pre), Post)

(***************************************************************************)
(* dune/__init__.py: Dune.dump.  files is [hosts, targets, mpf, format,    *)
(* raised]: the lines of .dune/<phynode> per phynode, the nodes whose      *)
(* targets.yml was written, the links of <name>.mpf.yml, and the format    *)
(* and the exception of the last call.                                     *)
(***************************************************************************)
NoFiles ==
    [hosts |-> <<>>, targets |-> {}, mpf |-> [written |-> FALSE, links |-> <<>>],
     format |-> None, raised |-> NoError]

\* The (header, section) pairs of the text format, in the order of lines 423-429.
TextSections ==
    << [header |-> "# PreSetup", section |-> Pre],
       [header |-> "# Nodes", section |-> Nodes],
       [header |-> "# Links", section |-> Links],
       [header |-> "# PostSetup", section |-> Post],
       [header |-> "# Processes", section |-> Processes] >>

Header(text) == [kind |-> "header", text |-> text]

RECURSIVE WriteSections(_, _, _)
\* Lines 430-431 for the k-th pair onwards: the header is written, then `config[v]` is
\* read, a KeyError when the phynode has no such phase.
WriteSections(out, config, k) ==
    IF k > Len(TextSections) \/ out.raised # NoError THEN out
    ELSE LET s == TextSections[k]
             headed == Append(out.lines, Header(s.header))
         IN IF s.section \notin DOMAIN config
            THEN [lines |-> headed, raised |-> "KeyError"]
            ELSE WriteSections([lines |-> headed \o config[s.section], raised |-> NoError],
                               config, k + 1)

\* The phynodes of _configs in insertion order: the order of their first command.
ConfigOrder(log) == AddNodes(<<>>, [i \in 1..Len(log) |-> log[i].pid])

\* One iteration of `for phynode, config in self._configs.items()`: the file is opened
\* for writing (emptied), then written; os.path.join(base, None) is a TypeError.
DumpHost(f, cfgs, pid, format) ==
    IF pid = None THEN [f EXCEPT !.raised = "TypeError"]
    ELSE LET w == IF format = "text"
                  THEN WriteSections([lines |-> <<>>, raised |-> NoError], cfgs[pid], 1)
                  ELSE [lines |-> <<[kind |-> "json", config |-> cfgs[pid]]>>,
                        raised |-> NoError]
         IN [f EXCEPT !.hosts = [p \in DOMAIN f.hosts \cup {pid} |->
                                    IF p = pid THEN w.lines ELSE f.hosts[p]],
                      !.raised = w.raised]

RECURSIVE DumpHosts(_, _, _, _)
DumpHosts(f, cfgs, order, format) ==
    IF order = <<>> \/ f.raised # NoError THEN f
    ELSE DumpHosts(DumpHost(f, cfgs, Head(order), format), cfgs, Tail(order), format)

RECURSIVE DumpTemplates(_, _, _)
\* Lines 437-452: `cfg.templates.items()` is an AttributeError for a node that declares
\* no templates; else the node's targets.yml is written.
DumpTemplates(f, t, nids) ==
    IF nids = <<>> \/ f.raised # NoError THEN f
    ELSE DumpTemplates(IF t.cfg[Head(nids)].templates = None
                       THEN [f EXCEPT !.raised = "AttributeError"]
                       ELSE [f EXCEPT !.targets = @ \cup {Head(nids)}],
                       t, Tail(nids))

RECURSIVE SeenLinks(_, _)
\* Lines 455-461: the directed edges whose reverse has not been seen.
SeenLinks(seen, edges) ==
    IF edges = <<>> THEN seen
    ELSE LET e == Head(edges)
             forward == [head |-> e.head, hi |-> e.key[1], tail |-> e.tail, ti |-> e.key[2]]
             reverse == [head |-> e.tail, hi |-> e.key[2], tail |-> e.head, ti |-> e.key[1]]
         IN SeenLinks(IF Contains(seen, reverse) THEN seen ELSE Append(seen, forward),
                      Tail(edges))

\* Lines 454-481: the roles of <name>.mpf.yml, one per link.
DumpRoles(f, t) ==
    IF f.raised # NoError THEN f
    ELSE [f EXCEPT !.mpf = [written |-> TRUE, links |-> SeenLinks(<<>>, TopoEdges(t))]]

\* Dune.dump(format) on the files f already under the base directory.
dump(f, cfgs, log, t, format) ==
    DumpRoles(DumpTemplates(DumpHosts([f EXCEPT !.raised = NoError, !.format = format], cfgs,
                                      ConfigOrder(log), format),
                            t, t.nodes),
              t)

(***************************************************************************)
(* dune/__init__.py: _expand_env, and the template part of _add_node.      *)
(* A value is [type, text, n, items]: a string (its text a sequence of     *)
(* pieces), an integer, None, or a dict (its items the [k, v] pairs in     *)
(* insertion order).                                                       *)
(***************************************************************************)
Str(text) == [type |-> "str", text |-> text, n |-> 0, items |-> <<>>]
IntVal(n) == [type |-> "int", text |-> <<>>, n |-> n, items |-> <<>>]
NoneVal == [type |-> "none", text |-> <<>>, n |-> 0, items |-> <<>>]
Dict(items) == [type |-> "dict", text |-> <<>>, n |-> 0, items |-> items]

\* The pieces of the strings: the keyword prefix `%fun `, a call of the plugin
\* callable, and an identifier no plugin defines.
FunPrefix == "%fun "
Call == "double(21)"
Word == "x"

\* d[k] = v on a dict: the value replaced in place, or the pair appended.
DictSet(items, k, v) ==
    IF \E i \in 1..Len(items) : items[i].k = k
    THEN [i \in 1..Len(items) |-> IF items[i].k = k THEN [k |-> k, v |-> v] ELSE items[i]]
    ELSE Append(items, [k |-> k, v |-> v])

\* eval(entry, plugins, {}) on the concatenated pieces, with plugins = {double}, where
\* double(21) returns 42: the text compiles when no call precedes its last piece;
\* compiled, `double(21)` is 42 and anything else names something undefined.
Eval(text) ==
    IF text = <<>> \/ \E i \in 1..(Len(text) - 1) : text[i] = Call
    THEN [raised |-> "SyntaxError", value |-> NoneVal]
    ELSE IF text = <<Call>> THEN [raised |-> NoError, value |-> IntVal(42)]
    ELSE [raised |-> "NameError", value |-> NoneVal]

\* _apply: match() raises TypeError on an entry that is not a string; on a string that
\* starts with `%fun `, sub() removes every `%fun ` of it and the rest is evaluated.
Apply(entry) ==
    IF entry.type # "str" THEN [raised |-> "TypeError", value |-> entry]
    ELSE IF entry.text # <<>> /\ Head(entry.text) = FunPrefix
    THEN Eval(SelectSeq(entry.text, LAMBDA piece : piece # FunPrefix))
    ELSE [raised |-> NoError, value |-> entry]

RECURSIVE ExpandFrom(_, _)
\* The dict comprehension of _expand_env, pair by pair: the key applied, then the value
\* (a dict expanded recursively); acc is [raised, items].
ExpandFrom(acc, items) ==
    IF acc.raised # NoError \/ items = <<>> THEN acc
    ELSE LET k == Apply(Head(items).k)
             v == IF Head(items).v.type = "dict"
                  THEN LET inner == ExpandFrom([raised |-> NoError, items |-> <<>>],
                                               Head(items).v.items)
                       IN [raised |-> inner.raised, value |-> Dict(inner.items)]
                  ELSE Apply(Head(items).v)
         IN IF k.raised # NoError THEN [acc EXCEPT !.raised = k.raised]
            ELSE IF v.raised # NoError THEN [acc EXCEPT !.raised = v.raised]
            ELSE ExpandFrom([acc EXCEPT !.items = DictSet(@, k.value, v.value)], Tail(items))

\* _expand_env(plugins, env).
ExpandEnv(items) == ExpandFrom([raised |-> NoError, items |-> <<>>], items)

RECURSIVE SafeLoadStr(_)
\* yaml.safe_load(Template(str(env)).render(...)), line 258, on an env whose strings
\* hold no placeholder: str() writes None as `None`, which YAML reads as a string.
SafeLoadStr(v) ==
    IF v.type = "none" THEN Str(<<"None">>)
    ELSE IF v.type = "dict"
    THEN Dict([i \in 1..Len(v.items) |->
                 [k |-> SafeLoadStr(v.items[i].k), v |-> SafeLoadStr(v.items[i].v)]])
    ELSE v

RECURSIVE Update(_, _)
\* renv.update(nenv)
Update(renv, items) ==
    IF items = <<>> THEN renv
    ELSE Update(DictSet(renv, Head(items).k, Head(items).v), Tail(items))

\* The renv of line 265 for node A, the first node of the graph, without links.
BaseRenv ==
    <<[k |-> Str(<<"rid">>), v |-> Str(<<"0.0.0.1">>)],
      [k |-> Str(<<"ifaces">>), v |-> Dict(<<>>)],
      [k |-> Str(<<"node">>), v |-> Str(<<"A">>)]>>

\* Lines 255-273 of _add_node for a node with the given env and template names: the
\* env reloaded, expanded, and every template rendered with the expanded env.
AddNodeTemplates(items, templates) ==
    LET loaded == SafeLoadStr(Dict(items)).items
        expanded == ExpandEnv(loaded)
    IN [called |-> "_add_node",
        raised |-> expanded.raised,
        env |-> expanded.items,
        rendered |-> IF expanded.raised # NoError THEN <<>>
                     ELSE [i \in 1..Len(templates) |->
                              [template |-> templates[i],
                               renv |-> Update(BaseRenv, expanded.items)]]]

\* A node without free-form fields and without templates.
NoNodeEnv == [items |-> <<>>, templates |-> <<>>]

\* nenv before any call.
NoEnv == [called |-> None, raised |-> NoError, env |-> <<>>, rendered |-> <<>>]

(***************************************************************************)
(* The inputs: infrastructure and topology descriptions that pass the      *)
(* constructors (Topo, Infra, and the core-count test of Dune.__init__).   *)
(* Every link endpoint is a declared node, every node declares `pinned`    *)
(* (Topo's constructor fails on a node without it), link defaults are      *)
(* declared, and interface names are unique per node.                      *)
(***************************************************************************)
IntDecl(n) == [isInt |-> TRUE, n |-> n, groups |-> <<>>]
ListDecl(groups) == [isInt |-> FALSE, n |-> 0, groups |-> groups]

\* Core groups of the given sizes, the host's core IDs numbered from 0.
GroupsOfSizes(sizes) ==
    [i \in 1..Len(sizes) |-> [j \in 1..sizes[i] |-> SeqSum(SubSeq(sizes, 1, i - 1)) + j - 1]]

GroupSizes ==
    {sz \in UNION {[1..k -> 1..MaxCores] : k \in 1..MaxCores} : SeqSum(sz) <= MaxCores}

\* `cores: N` and `cores: [[...], ...]` with at most MaxCores cores per host.
CoreDecls == {IntDecl(n) : n \in 1..MaxCores} \cup {ListDecl(GroupsOfSizes(sz)) : sz \in GroupSizes}

\* Hosts that declare one core group.
OneGroupDecls == {ListDecl(GroupsOfSizes(<<n>>)) : n \in 1..MaxCores}

HostLists == {SubSeq(PhyNames, 1, k) : k \in 1..2}

NodeLists(least) == {SubSeq(NodeNames, 1, n) : n \in least..MaxNodes}

\* Pinned processes: one slot (core_0 only), or two (an environment variable that
\* references core_1); with or without a teardown command.
OneCore == [environ |-> <<>>, down |-> FALSE]
TwoCores == [environ |-> <<1>>, down |-> FALSE]
OneCoreDown == [environ |-> <<>>, down |-> TRUE]

NoAddrs == [declared |-> FALSE, ifs |-> <<>>]
EmptyAddrs == [declared |-> TRUE, ifs |-> <<>>]
LoAddrs == [declared |-> TRUE, ifs |-> [lo |-> <<"fc00::1/128">>]]

NodeCfg(pinned, addrs) ==
    [pinned |-> pinned, addrs |-> addrs, execs |-> <<>>, sysctls |-> <<>>, templates |-> None]

NoAttrs == [k \in {} |-> ""]

Link(head, tail, iface, attrs) ==
    [head |-> head, hi |-> iface, tail |-> tail, ti |-> iface, attrs |-> attrs]

IfaceNames == <<"eth0", "eth1", "eth2", "eth3">>

NewDune(t, inf) ==
    /\ t.total_cores <= inf.total_cores
    /\ topo = t
    /\ infra = inf
    /\ allocation = NoAllocation
    /\ configs = <<>>
    /\ popLog = <<>>
    /\ linkCalls = <<>>
    /\ raised = NoError
    /\ ret = NoAllocation
    /\ nAllocs = 0
    /\ nBuilds = 0
    /\ cmdLog = <<>>
    /\ files = NoFiles
    /\ nDumps = 0
    /\ document = None
    /\ stage = Constructed
    /\ env = NoNodeEnv
    /\ nenv = NoEnv

\* Placement inputs: any core layout on one or two hosts, nodes with up to two pinned
\* processes of one or two slots, and at most one link, which makes the graph's node
\* order differ from the declaration order.
AllocPinned == {<<>>, <<OneCore>>, <<TwoCores>>, <<OneCore, OneCore>>, <<OneCore, TwoCores>>}

InitAlloc ==
    \E phynodes \in HostLists, declared \in NodeLists(1) :
    \E decl \in [Range(phynodes) -> CoreDecls],
       pinned \in [Range(declared) -> AllocPinned],
       links \in {<<>>} \cup {<<Link(declared[i], declared[j], "eth0", NoAttrs)>> :
                                i \in 2..Len(declared), j \in 1..Len(declared)} :
        /\ \A i \in 1..Len(links) : IndexOf(declared, links[i].tail) < IndexOf(declared, links[i].head)
        /\ NewDune(LoadTopo(declared, [n \in Range(declared) |-> NodeCfg(pinned[n], EmptyAddrs)],
                            links, NoAttrs),
                   LoadInfra(phynodes, decl, <<>>, <<>>))

\* Link inputs: hosts of one core group, nodes of one 1-slot process each, and up to
\* MaxLinks links between any two distinct nodes; the first link declares latency and
\* bw or not, and the link defaults declare bw or not.
AttrChoices ==
    {NoAttrs, [latency |-> "10ms"], [bw |-> "100mbit"], [latency |-> "10ms", bw |-> "100mbit"]}

DefaultChoices == {NoAttrs, [bw |-> "10mbit"]}

Pairs(declared) == {e \in Range(declared) \X Range(declared) : e[1] # e[2]}

LinkSeqs(declared) ==
    UNION {{[i \in 1..k |-> Link(ends[i][1], ends[i][2], IfaceNames[i],
                                 IF i = 1 THEN attrs ELSE NoAttrs)] :
                ends \in [1..k -> Pairs(declared)], attrs \in AttrChoices} :
           k \in 0..MaxLinks}

InitLinks ==
    \E phynodes \in HostLists, declared \in NodeLists(2) :
    \E decl \in [Range(phynodes) -> OneGroupDecls],
       links \in LinkSeqs(declared),
       defaults \in DefaultChoices :
        NewDune(LoadTopo(declared, [n \in Range(declared) |-> NodeCfg(<<OneCore>>, EmptyAddrs)],
                         links, defaults),
                LoadInfra(phynodes, decl, <<>>, <<>>))

\* Node inputs: nodes with no, one or two pinned processes, with or without `addrs`,
\* joined by at most one link; the Infra declares setup commands or not.
BuildPinned == {<<>>, <<OneCoreDown>>, <<OneCore, OneCore>>}

AddrChoices == {NoAddrs, EmptyAddrs, LoAddrs}

SetupChoices == {<<>>, <<[kind |-> "inline", cmd |-> "modprobe sch_netem"],
                       [kind |-> "script", cmd |-> "setup.sh"]>>}

\* Synthesis inputs: hosts of one core group; nodes drawn from a few profiles (a plain
\* node; a node with loopback addresses, execs, sysctls, a teardown command and an empty
\* `templates` map; a node with a two-slot process; a node with two processes; a node
\* without `addrs`; a node with an empty `pinned` list); at most one link, between the
\* first two nodes; setup.pre and setup.post declared or not.
PostChoices == {<<>>, <<[kind |-> "script", cmd |-> "teardown.sh"],
                       [kind |-> "inline", cmd |-> "sysctl -p"],
                       [kind |-> "inline", cmd |-> "ip l"]>>}

NodeProfiles ==
    { NodeCfg(<<OneCore>>, EmptyAddrs),
      [pinned |-> <<OneCoreDown>>,
       addrs |-> [declared |-> TRUE, ifs |-> [lo |-> <<"fc00::1/128", "fc00::2/128">>]],
       execs |-> <<"e1", "e2">>, sysctls |-> << <<"s1", "1">>, <<"s2", "0">> >>,
       templates |-> <<>>],
      [pinned |-> <<TwoCores>>, addrs |-> LoAddrs, execs |-> <<"e1">>, sysctls |-> <<>>,
       templates |-> <<>>],
      [pinned |-> <<OneCore, OneCoreDown>>, addrs |-> EmptyAddrs, execs |-> <<>>,
       sysctls |-> << <<"s1", "1">> >>, templates |-> <<>>],
      NodeCfg(<<OneCore>>, NoAddrs),
      [pinned |-> <<>>, addrs |-> EmptyAddrs, execs |-> <<"e1">>, sysctls |-> <<>>,
       templates |-> <<>>] }

InitSynth ==
    \E phynodes \in HostLists, declared \in NodeLists(1) :
    \E decl \in [Range(phynodes) -> OneGroupDecls],
       cfg \in [Range(declared) -> NodeProfiles],
       links \in {<<>>} \cup {<<Link(declared[1], declared[i], "eth0", NoAttrs)>> :
                                i \in 2..Min(2, Len(declared))},
       pre \in SetupChoices,
       post \in PostChoices :
        NewDune(LoadTopo(declared, cfg, links, NoAttrs), LoadInfra(phynodes, decl, pre, post))

\* Slot inputs: hosts of one group of MaxSlots cores; nodes of one pinned process whose
\* environment templates reference up to MaxSlots - 1 slots among core_0 ..
\* core_(MaxSlots - 1), in any order of appearance; no links.
SlotRefs == UNION {[1..k -> 0..(MaxSlots - 1)] : k \in 0..(MaxSlots - 1)}

InitSlots ==
    \E phynodes \in HostLists, declared \in NodeLists(1) :
    \E refs \in [Range(declared) -> SlotRefs] :
        NewDune(LoadTopo(declared,
                         [n \in Range(declared) |->
                             NodeCfg(<<[environ |-> refs[n], down |-> FALSE]>>, EmptyAddrs)],
                         <<>>, NoAttrs),
                LoadInfra(phynodes,
                          [h \in Range(phynodes) |-> ListDecl(GroupsOfSizes(<<MaxSlots>>))],
                          <<>>, <<>>))

InitNodes ==
    \E phynodes \in HostLists, declared \in NodeLists(1) :
    \E decl \in [Range(phynodes) -> OneGroupDecls],
       pinned \in [Range(declared) -> BuildPinned],
       addrs \in [Range(declared) -> AddrChoices],
       links \in {<<>>} \cup {<<Link(declared[1], declared[i], "eth0", NoAttrs)>> :
                                i \in 2..Len(declared)},
       pre \in SetupChoices :
        NewDune(LoadTopo(declared, [n \in Range(declared) |-> NodeCfg(pinned[n], addrs[n])],
                         links, NoAttrs),
                LoadInfra(phynodes, decl, pre, <<>>))

InitBuild == InitLinks \/ InitNodes

\* Environments: strings of up to MaxLen pieces, an integer and None as leaves; a key
\* is a plain string, a string with the prefix, or an integer; one pair, one pair with a
\* nested dict, or two pairs; one or two templates.
Texts == UNION {[1..n -> {FunPrefix, Call, Word}] : n \in 0..MaxLen}

Leaves == {Str(t) : t \in Texts} \cup {IntVal(7), NoneVal}

Keys == {Str(<<Word>>), Str(<<FunPrefix, Call>>), IntVal(1)}

EnvItems ==
    {<<[k |-> k, v |-> v]>> : k \in Keys, v \in Leaves}
    \cup {<<[k |-> k, v |-> Dict(<<[k |-> k2, v |-> v]>>)]>> : k \in Keys, k2 \in Keys, v \in Leaves}
    \cup {<<[k |-> Str(<<Word>>), v |-> v], [k |-> Str(<<"y">>), v |-> w]>> :
              v \in Leaves, w \in Leaves}

InitEnv ==
    /\ \E items \in EnvItems, templates \in {<<"t1">>, <<"t1", "t2">>} :
           env = [items |-> items, templates |-> templates]
    /\ nenv = NoEnv
    /\ stage = Constructed
    /\ document = None
    /\ topo = LoadTopo(<<>>, <<>>, <<>>, NoAttrs)
    /\ infra = LoadInfra(<<>>, <<>>, <<>>, <<>>)
    /\ allocation = NoAllocation
    /\ configs = <<>>
    /\ popLog = <<>>
    /\ linkCalls = <<>>
    /\ raised = NoError
    /\ ret = NoAllocation
    /\ nAllocs = 0
    /\ nBuilds = 0
    /\ cmdLog = <<>>
    /\ files = NoFiles
    /\ nDumps = 0

(***************************************************************************)
(* Construction from an input document: Dune.__init__ runs Topo(path) and  *)
(* then Infra(path) on the same file.  A document is [hasTopology,         *)
(* hasLinks, hasNodes, defaults, links, declared, pinned,                  *)
(* hasInfrastructure, hasInfraNodes, phynodes, cores]: the has* fields     *)
(* tell whether the section is present, defaults whether `defaults` is     *)
(* declared and holds `links`, a link tells whether it has `endpoints`, a  *)
(* host whether it has `cores`, a pinned entry whether it has `cmd`.       *)
(***************************************************************************)
\* Pinned.from_dict: None for an entry without `cmd`.
PinnedFromDict(entry) ==
    [isNone |-> ~entry.hasCmd, environ |-> entry.environ, down |-> entry.down]

\* Node.__init__, line 70: the Pinned of every entry, the None ones filtered out.
NodeInit(entries) ==
    LET made == [i \in 1..Len(entries) |-> PinnedFromDict(entries[i])]
        kept == SelectSeq(made, LAMBDA q : ~q.isNone)
    IN [i \in 1..Len(kept) |-> [environ |-> kept[i].environ, down |-> kept[i].down]]

\* Lines 160-165 of _load_topo: `topo['defaults'].get('links')` when `defaults` is
\* declared, None when it is not or when it holds no `links`.
LinksDefaults(doc) ==
    [isNone |-> ~(doc.defaults.declared /\ doc.defaults.hasLinks), attrs |-> doc.defaults.links]

RECURSIVE LinksOutcome(_, _)
\* The loop of _parse_links: a link without `endpoints` is a KeyError, caught to return
\* 1 (then exit(1)); on a link with endpoints `defaults.items()` is evaluated, an
\* AttributeError when defaults is None, which nothing catches.
LinksOutcome(links, defaults) ==
    IF links = <<>> THEN "ok"
    ELSE IF ~Head(links).hasEndpoints THEN "exit"
    ELSE IF defaults.isNone THEN "AttributeError"
    ELSE LinksOutcome(Tail(links), defaults)

TopoSections(doc) == doc.hasTopology /\ doc.hasLinks /\ doc.hasNodes

\* Topo._load_topo and Topo._parse_links: which documents make them call exit(1).
TopoExits(doc) ==
    \/ ~TopoSections(doc)
    \/ LinksOutcome(doc.links, LinksDefaults(doc)) = "exit"

\* Topo._parse_links: which documents make it raise.
TopoRaises(doc) ==
    /\ TopoSections(doc)
    /\ LinksOutcome(doc.links, LinksDefaults(doc)) = "AttributeError"

\* Infra.__init__ and Infra._load_nodes: which documents make them call exit(1).
InfraExits(doc) ==
    \/ ~doc.hasInfrastructure
    \/ ~doc.hasInfraNodes
    \/ doc.phynodes = <<>>
    \/ \E i \in 1..Len(doc.phynodes) : ~doc.cores[doc.phynodes[i]].hasCores

\* Dune.__init__: the Topo, then the Infra, then the comparison of the core totals.
LoadDocument(doc) ==
    LET t == LoadTopo(doc.declared,
                      [n \in Range(doc.declared) |-> NodeCfg(NodeInit(doc.pinned[n]), EmptyAddrs)],
                      [i \in 1..Len(doc.links) |-> doc.links[i].link],
                      LinksDefaults(doc).attrs)
        inf == LoadInfra(doc.phynodes, [h \in Range(doc.phynodes) |-> doc.cores[h].decl],
                         <<>>, <<>>)
        none == [exited |-> TRUE, raised |-> NoError, topo |-> topo, infra |-> infra]
    IN IF TopoExits(doc) THEN none
       ELSE IF TopoRaises(doc) THEN [none EXCEPT !.exited = FALSE, !.raised = "AttributeError"]
       ELSE IF InfraExits(doc) THEN none
       ELSE IF t.total_cores > inf.total_cores THEN none
       ELSE [exited |-> FALSE, raised |-> NoError, topo |-> t, infra |-> inf]

\* Documents: one or two hosts with `cores` an integer or a list of groups, one or two
\* nodes with one or two pinned entries, at most one link (with its own bw or not), and
\* at most one section missing; a link, a host, a pinned entry may lack its required
\* field; `defaults` is absent, or declared without `links`, or declared with a bw for
\* links.
PinnedEntry(hasCmd) == [hasCmd |-> hasCmd, environ |-> <<>>, down |-> FALSE]

EntryLists ==
    {<<PinnedEntry(TRUE)>>, <<PinnedEntry(FALSE)>>, <<PinnedEntry(TRUE), PinnedEntry(FALSE)>>}

DefaultsChoices ==
    {[declared |-> FALSE, hasLinks |-> FALSE, links |-> NoAttrs],
     [declared |-> TRUE, hasLinks |-> FALSE, links |-> NoAttrs],
     [declared |-> TRUE, hasLinks |-> TRUE, links |-> [bw |-> "10mbit"]]}

SectionChoices ==
    {f \in [{"topology", "links", "nodes", "infrastructure", "infra_nodes"} -> BOOLEAN] :
        Cardinality({k \in DOMAIN f : ~f[k]}) <= 1}

\* Before Dune(base, topo) is called: an input document, nothing loaded.
InitLoad ==
    /\ \E phynodes \in HostLists, declared \in NodeLists(1), f \in SectionChoices,
          defaults \in DefaultsChoices :
       \E pinned \in [Range(declared) -> EntryLists],
          links \in {<<>>} \cup
                    {<<[hasEndpoints |-> e,
                        link |-> Link(declared[1], declared[i], "eth0", attrs)]>> :
                         e \in BOOLEAN, i \in 2..Min(2, Len(declared)),
                         attrs \in {NoAttrs, [bw |-> "100mbit"]}},
          cores \in [Range(phynodes) -> {[hasCores |-> c, decl |-> g] :
                                            c \in BOOLEAN, g \in CoreDecls}] :
           document = [hasTopology |-> f["topology"], hasLinks |-> f["links"],
                       hasNodes |-> f["nodes"], defaults |-> defaults,
                       hasInfrastructure |-> f["infrastructure"],
                       hasInfraNodes |-> f["infra_nodes"],
                       links |-> links, declared |-> declared, pinned |-> pinned,
                       phynodes |-> phynodes, cores |-> cores]
    /\ stage = New
    /\ topo = LoadTopo(<<>>, <<>>, <<>>, NoAttrs)
    /\ infra = LoadInfra(<<>>, <<>>, <<>>, <<>>)
    /\ allocation = NoAllocation
    /\ configs = <<>>
    /\ popLog = <<>>
    /\ linkCalls = <<>>
    /\ raised = NoError
    /\ ret = NoAllocation
    /\ nAllocs = 0
    /\ nBuilds = 0
    /\ cmdLog = <<>>
    /\ files = NoFiles
    /\ nDumps = 0
    /\ env = NoNodeEnv
    /\ nenv = NoEnv

(***************************************************************************)
(* The operations.                                                         *)
(***************************************************************************)
\* The mutable part of the Dune instance, as the operators above take it.
Dune ==
    [allocation |-> allocation, cores |-> infra.cores, configs |-> configs,
     popLog |-> popLog, linkCalls |-> linkCalls, cmdLog |-> cmdLog, raised |-> NoError,
     ret |-> ret]

Store(d) ==
    /\ allocation' = d.allocation
    /\ infra' = [infra EXCEPT !.cores = d.cores]
    /\ configs' = d.configs
    /\ popLog' = d.popLog
    /\ linkCalls' = d.linkCalls
    /\ cmdLog' = d.cmdLog
    /\ raised' = d.raised
    /\ ret' = d.ret
    /\ UNCHANGED <<topo, document, stage>>

\* A call of dune.allocate().
Allocate ==
    /\ stage = Constructed
    /\ nAllocs < MaxAllocs
    /\ Store(allocate(Dune, topo, infra.phynodes))
    /\ nAllocs' = nAllocs + 1
    /\ UNCHANGED <<nBuilds, files, nDumps, env, nenv>>

\* A call of dune.build().
Build ==
    /\ stage = Constructed
    /\ nBuilds < MaxBuilds
    /\ Store(build(Dune))
    /\ nBuilds' = nBuilds + 1
    /\ UNCHANGED <<nAllocs, files, nDumps, env, nenv>>

\* A call of dune.dump(format).
Dump ==
    /\ stage = Constructed
    /\ nDumps < MaxDumps
    /\ \E format \in {"text", "json"} :
           files' = dump(files, configs, cmdLog, topo, format)
    /\ nDumps' = nDumps + 1
    /\ UNCHANGED <<topo, infra, allocation, configs, popLog, linkCalls, raised, ret,
                   nAllocs, nBuilds, cmdLog, document, stage, env, nenv>>

\* Dune(base, topo) on the input document: the instance, the exit(1) of a constructor,
\* or the exception that leaves it.
Construct ==
    /\ stage = New
    /\ LET r == LoadDocument(document) IN
       /\ stage' = IF r.exited THEN Exited
                   ELSE IF r.raised # NoError THEN Failed ELSE Constructed
       /\ raised' = r.raised
       /\ topo' = r.topo
       /\ infra' = r.infra
    /\ UNCHANGED <<allocation, configs, popLog, linkCalls, ret, nAllocs, nBuilds,
                   cmdLog, files, nDumps, document, env, nenv>>

\* A call of _expand_env(plugins, env) on the node's env.
Expand ==
    /\ nenv.called = None
    /\ LET r == ExpandEnv(env.items) IN
       nenv' = [called |-> "_expand_env", raised |-> r.raised, env |-> r.items,
                rendered |-> <<>>]
    /\ UNCHANGED <<topo, infra, allocation, configs, popLog, linkCalls, raised, ret, nAllocs,
                   nBuilds, cmdLog, files, nDumps, document, stage, env>>

\* The template part of _add_node for a node with the env and its templates.
Render ==
    /\ nenv.called = None
    /\ nenv' = AddNodeTemplates(env.items, env.templates)
    /\ UNCHANGED <<topo, infra, allocation, configs, popLog, linkCalls, raised, ret, nAllocs,
                   nBuilds, cmdLog, files, nDumps, document, stage, env>>

NextEnv == Expand \/ Render

Next == Allocate \/ Build

NextLoad == Construct \/ Build

NextDump == Build \/ Dump

Spec == InitAlloc /\ [][Next]_vars

SpecBuild == InitBuild /\ [][Next]_vars

SpecSynth == InitSynth /\ [][Build]_vars

SpecDump == InitSynth /\ [][NextDump]_vars

SpecLoad == InitLoad /\ [][NextLoad]_vars

SpecEnv == InitEnv /\ [][NextEnv]_vars

SpecSlots == InitSlots /\ [][Build]_vars

(***************************************************************************)
(* Properties.                                                             *)
(***************************************************************************)
Placed == ~allocation.isNone

CoreCount(n) == NodeGetNCores(topo.cfg[n])

\* The (node, process index) entries of the placement.
Entries == UNION {{<<n, i>> : i \in 1..Len(allocation.map[n].cores)} : n \in DOMAIN allocation.map}

\* The commands of one phase of one host; none when the host or the phase has no entry.
Phase(p, section) ==
    IF p \in DOMAIN configs /\ section \in DOMAIN configs[p] THEN configs[p][section] ELSE <<>>

Count(cmds, Is(_)) == Cardinality({i \in 1..Len(cmds) : Is(cmds[i])})

\* The calls of _add_link made for the same directed edge as call c.
SameCalls(c) ==
    Cardinality({i \in 1..Len(linkCalls) :
        /\ linkCalls[i].head = c.head
        /\ linkCalls[i].tail = c.tail
        /\ linkCalls[i].key = c.key})

IsVeth(cmd) == cmd.kind = "veth"

IsVethOf(cmd, c) ==
    /\ cmd.kind = "veth"
    /\ cmd.dev = c.key[1] /\ cmd.netns = c.head
    /\ cmd.peer = c.key[2] /\ cmd.peerns = c.tail

\* A shaping command on interface dev in the namespace of node ns.
IsShaping(cmd, ns, dev) ==
    /\ cmd.kind = "netns_exec"
    /\ cmd.ns = ns
    /\ cmd.cmd.op = "tc netem"
    /\ cmd.cmd.dev = dev

IsNetnsAdd(cmd, n) == cmd.kind = "ip netns add" /\ cmd.node = n

IsLaunch(cmd) == cmd.kind = "netns_exec" /\ cmd.cmd.op = "taskset -c"

\* C1: whenever the required core count is at most the available one (true of every
\* constructed Dune), the placement gives every node that has pinned processes a
\* phynode and gives every pinned process a core list as long as its slot count.
C1_EveryProcessGetsItsCores ==
    Placed =>
        \A n \in Range(topo.nodes) :
            LET pinned == topo.cfg[n].pinned IN
            pinned # <<>> =>
                /\ n \in DOMAIN allocation.map
                /\ allocation.map[n].phynode # None
                /\ Len(allocation.map[n].cores) = Len(pinned)
                /\ \A i \in 1..Len(pinned) :
                       Len(allocation.map[n].cores[i]) = PinnedGetNCores(pinned[i])

\* C2: in the placement, two distinct (node, process) entries whose nodes are recorded
\* on the same phynode have disjoint core lists, and no core ID occurs twice in a list
\* (core IDs are unique within each phynode in every input of the model).
C2_NoCoreSharedOnAPhynode ==
    Placed =>
        /\ \A e \in Entries :
               LET ids == allocation.map[e[1]].cores[e[2]] IN
               Cardinality(Range(ids)) = Len(ids)
        /\ \A e1, e2 \in Entries :
               (e1 # e2 /\ allocation.map[e1[1]].phynode = allocation.map[e2[1]].phynode)
                   => Range(allocation.map[e1[1]].cores[e1[2]])
                          \cap Range(allocation.map[e2[1]].cores[e2[2]]) = {}

\* C3: allocate() is idempotent: once a placement exists no step changes it, a call of
\* allocate() returns the cached placement and pops nothing, and no step changes the
\* Infra's core inventory.
C3_AllocateIdempotent ==
    [][/\ infra' = infra
       /\ ~allocation.isNone => allocation' = allocation
       /\ nAllocs' # nAllocs =>
              /\ ret' = allocation'
              /\ ~allocation.isNone => popLog' = popLog]_vars

\* C3 witness: a second call of allocate() has returned the placement for which cores
\* were popped.
C3_Witness == nAllocs = 2 /\ Placed /\ ret = allocation /\ popLog # <<>>

\* C4 as stated: cores are popped for nodes in descending order of their required core
\* count, nodes with equal counts in the order the `nodes` section declares them.
C4_DeclarationOrder ==
    \A i, j \in 1..Len(popLog) :
        LET x == popLog[i].node
            y == popLog[j].node
        IN (i < j /\ x # y) =>
               \/ CoreCount(x) > CoreCount(y)
               \/ /\ CoreCount(x) = CoreCount(y)
                  /\ IndexOf(topo.declared, x) < IndexOf(topo.declared, y)

\* C4 amended: cores are popped for nodes in descending order of their required core
\* count, nodes with equal counts in the order of the topology graph's nodes (link
\* endpoints in order of first appearance in `links`, then the other nodes in
\* declaration order).
C4_GraphOrder ==
    \A i, j \in 1..Len(popLog) :
        LET x == popLog[i].node
            y == popLog[j].node
        IN (i < j /\ x # y) =>
               \/ CoreCount(x) > CoreCount(y)
               \/ /\ CoreCount(x) = CoreCount(y)
                  /\ IndexOf(topo.nodes, x) < IndexOf(topo.nodes, y)

\* C4 witness: cores were popped for a node before a node that precedes it in the graph
\* and requires fewer cores.
C4_Witness ==
    \E i, j \in 1..Len(popLog) :
        /\ i < j
        /\ CoreCount(popLog[i].node) > CoreCount(popLog[j].node)
        /\ IndexOf(topo.nodes, popLog[i].node) > IndexOf(topo.nodes, popLog[j].node)

\* C5: allocate() never caches a partial placement: no node with pinned processes is
\* recorded with host None or with fewer core lists than pinned processes.
C5_NoPartialPlacement ==
    Placed =>
        \A n \in DOMAIN allocation.map :
            topo.cfg[n].pinned # <<>> =>
                /\ allocation.map[n].phynode # None
                /\ Len(allocation.map[n].cores) >= Len(topo.cfg[n].pinned)

\* C6: every core ID popped for a node was taken from the phynode the placement records
\* for that node, which is therefore the phynode of its first pinned process.
C6_OneHostPerNode ==
    Placed =>
        \A k \in 1..Len(popLog) :
            popLog[k].node \in DOMAIN allocation.map
                => popLog[k].phynode = allocation.map[popLog[k].node].phynode

\* C7: a build() calls _add_link exactly once for each declared link, for one of its
\* two directed edges.
C7_EachLinkAddedOnce ==
    nBuilds >= 1 =>
        \A l \in 1..Len(topo.links) :
            LET link == topo.links[l] IN
            Cardinality({i \in 1..Len(linkCalls) :
                \/ /\ linkCalls[i].head = link.head /\ linkCalls[i].tail = link.tail
                   /\ linkCalls[i].key = <<link.hi, link.ti>>
                \/ /\ linkCalls[i].head = link.tail /\ linkCalls[i].tail = link.head
                   /\ linkCalls[i].key = <<link.ti, link.hi>>}) = nBuilds

\* C8: for every call of _add_link, if both ends are on the same phynode, the Links
\* phase of that phynode holds one veth command per call, naming both interfaces and
\* both namespaces, and no other phynode holds one; if the ends are on different
\* phynodes, no phynode holds a veth command for the link.
C8_VethOnlyOnSameHost ==
    \A i \in 1..Len(linkCalls) :
        LET c == linkCalls[i] IN
        \A p \in DOMAIN configs \cup {c.head_phynode} :
            Count(Phase(p, Links), LAMBDA cmd : IsVethOf(cmd, c))
                = IF c.head_phynode = c.tail_phynode /\ p = c.head_phynode
                  THEN SameCalls(c) ELSE 0

\* C8 witness: _add_link returned for a link whose ends are on one phynode, and that
\* phynode's Links phase holds the veth command.
C8_Witness ==
    \E i \in 1..Len(linkCalls) :
        /\ linkCalls[i].returned
        /\ linkCalls[i].head_phynode = linkCalls[i].tail_phynode
        /\ linkCalls[i].head_phynode \in Range(infra.phynodes)
        /\ Count(Phase(linkCalls[i].head_phynode, Links),
                 LAMBDA cmd : IsVethOf(cmd, linkCalls[i])) = 1

\* The attributes of the directed edge a call of _add_link was made for.
DataOf(c) ==
    LET e == CHOOSE e \in Range(topo.edges) : e.head = c.head /\ e.tail = c.tail /\ e.key = c.key
    IN e.data

\* C9: every call of _add_link yields exactly one shaping command on the head
\* interface, in the head node's namespace, on the head node's phynode; its delay is
\* the link's latency, or 0ms without one, and its rate the link's bw, or 1gbit.
C9_OneShapingPerLink ==
    \A i \in 1..Len(linkCalls) :
        LET c == linkCalls[i]
            data == DataOf(c)
            shaping == Phase(c.head_phynode, Links)
        IN /\ Count(shaping, LAMBDA cmd : IsShaping(cmd, c.head, c.key[1])) = SameCalls(c)
           /\ \A k \in 1..Len(shaping) :
                  IsShaping(shaping[k], c.head, c.key[1]) =>
                      /\ shaping[k].cmd.delay
                             = IF "latency" \in DOMAIN data THEN data["latency"] ELSE "0ms"
                      /\ shaping[k].cmd.rate
                             = IF "bw" \in DOMAIN data THEN data["bw"] ELSE "1gbit"

\* C10: after build(), when every node is placed on one phynode, that phynode's config
\* holds one namespace creation per node in Nodes, one veth command per declared link
\* in Links and one core-bound launch per pinned process in Processes.
C10_EndToEndCounts ==
    \A p \in Range(infra.phynodes) :
        (/\ nBuilds = 1
         /\ Placed
         /\ \A n \in Range(topo.nodes) :
                n \in DOMAIN allocation.map /\ allocation.map[n].phynode = p)
        => /\ \A n \in Range(topo.nodes) :
                  Count(Phase(p, Nodes), LAMBDA cmd : IsNetnsAdd(cmd, n)) = 1
           /\ Count(Phase(p, Links), IsVeth) = Len(topo.links)
           /\ Count(Phase(p, Processes), IsLaunch) =
                  SeqSum([i \in 1..Len(topo.nodes) |-> Len(topo.cfg[topo.nodes[i]].pinned)])

\* The text file the export is to write for phynode p: the five headers in order, each
\* followed by the commands of its phase.
TextFile(p) ==
    Concat([k \in 1..Len(TextSections) |->
               <<Header(TextSections[k].header)>> \o Phase(p, TextSections[k].section)])

\* C11: a call of dump(format='text') after a build() that returned, when every key of
\* the per-host config is a phynode, completes, and the file of every such phynode holds the five
\* section headers in the fixed order, each followed by exactly that phase's commands in
\* synthesis order (so no command of phase Down).
C11_TextExport ==
    [][(/\ nDumps' # nDumps /\ files'.format = "text" /\ nBuilds >= 1 /\ raised = NoError
        /\ DOMAIN configs \subseteq Range(infra.phynodes)) =>
           /\ files'.raised = NoError
           /\ \A p \in DOMAIN configs :
                  p \in DOMAIN files'.hosts /\ files'.hosts[p] = TextFile(p)]_vars

\* The commands of one phase of one host after the step.
PhaseNext(p, section) ==
    IF p \in DOMAIN configs' /\ section \in DOMAIN configs'[p] THEN configs'[p][section] ELSE <<>>

RECURSIVE InlineCmds(_)
\* The inline entries of a setup list, in declared order, as setup commands.
InlineCmds(setup) ==
    IF setup = <<>> THEN <<>>
    ELSE (IF Head(setup).kind = "inline" THEN <<[kind |-> "setup", cmd |-> Head(setup).cmd]>>
          ELSE <<>>) \o InlineCmds(Tail(setup))

\* The hosts the placement records for some node.
PlacementHosts(a) == {a.map[n].phynode : n \in DOMAIN a.map}

Malformed(doc) ==
    \/ ~doc.hasTopology \/ ~doc.hasLinks \/ ~doc.hasNodes
    \/ ~doc.hasInfrastructure \/ ~doc.hasInfraNodes
    \/ \E i \in 1..Len(doc.links) : ~doc.links[i].hasEndpoints
    \/ \E h \in Range(doc.phynodes) : ~doc.cores[h].hasCores
    \/ \E n \in Range(doc.declared) : \E i \in 1..Len(doc.pinned[n]) : ~doc.pinned[n][i].hasCmd

\* C13: when the input document lacks a required section or field (`topology`,
\* `infrastructure`, topology `nodes` or `links`, a link's `endpoints`, a host's `cores`,
\* a pinned entry's `cmd`), construction ends in exit(1): no Dune instance exists and no
\* command is ever synthesized.
C13_MalformedIsFatal ==
    (stage # New /\ Malformed(document)) =>
        /\ stage = Exited
        /\ cmdLog = <<>>
        /\ configs = <<>>

\* The commands a step appends to the per-host config.
Appended == SubSeq(cmdLog', Len(cmdLog) + 1, Len(cmdLog'))

\* C14: a build() called while no allocation has been performed (_allocation is None)
\* fails and appends no command; and no build() appends a command for a node that the
\* placement does not record on a phynode.
C14_PlacementMissing ==
    [][nBuilds' # nBuilds =>
          /\ allocation.isNone => (raised' # NoError /\ Appended = <<>>)
          /\ \A i \in 1..Len(Appended) : Appended[i].pid \in Range(infra.phynodes)]_vars

\* The core IDs of phynode p that allocate() can take: those held in its core groups
\* (the entries of _cores[p] that are lists).
Allocatable(p) ==
    SeqSum([i \in 1..Len(infra.cores[p]) |->
               IF infra.cores[p][i].isList THEN Len(infra.cores[p][i].ids) ELSE 0])

\* C15: the Infra's total available core count, which Dune.__init__ compares with the
\* topology's requirement, is the number of core IDs held in the core groups of its
\* phynodes, whether `cores` is declared as an integer or as a list of groups.
C15_TotalIsAllocatable ==
    infra.total_cores = SeqSum([i \in 1..Len(infra.phynodes) |-> Allocatable(infra.phynodes[i])])

\* A string that starts with the function prefix.
Prefixed(v) == v.type = "str" /\ v.text # <<>> /\ Head(v.text) = FunPrefix

RECURSIVE Evaluable(_)
\* Every prefixed key or leaf of the items is `%fun double(21)`, whose remainder
\* evaluates (to 42) against the registered callables.
Evaluable(items) ==
    \A i \in 1..Len(items) :
        /\ Prefixed(items[i].k) => Tail(items[i].k.text) = <<Call>>
        /\ IF items[i].v.type = "dict" THEN Evaluable(items[i].v.items)
           ELSE Prefixed(items[i].v) => Tail(items[i].v.text) = <<Call>>

\* What the expansion is to make of a key or leaf of such items: 42 for a prefixed
\* string, the value itself otherwise.
Expanded(v) == IF Prefixed(v) THEN IntVal(42) ELSE v

RECURSIVE ExpandedItems(_, _)
\* What the expansion is to make of such items, nested dicts expanded recursively.
ExpandedItems(acc, items) ==
    IF items = <<>> THEN acc
    ELSE ExpandedItems(DictSet(acc, Expanded(Head(items).k),
                               IF Head(items).v.type = "dict"
                               THEN Dict(ExpandedItems(<<>>, Head(items).v.items))
                               ELSE Expanded(Head(items).v)),
                       Tail(items))

RECURSIVE HasPrefixed(_)
HasPrefixed(items) ==
    \E i \in 1..Len(items) :
        \/ Prefixed(items[i].k)
        \/ IF items[i].v.type = "dict" THEN HasPrefixed(items[i].v.items)
           ELSE Prefixed(items[i].v)

\* C16: on an env whose prefixed keys and leaves are `%fun double(21)`, _expand_env
\* returns the env with every prefixed string key or leaf replaced by 42 and every
\* other leaf, of any type, unchanged, at every nesting depth; and _add_node renders
\* every template of the node, each with an environment in which the expansion has
\* been applied (no prefixed string is left).
C16_MacroExpansion ==
    [][(nenv.called = None /\ nenv'.called # None /\ Evaluable(env.items)) =>
          /\ nenv'.raised = NoError
          /\ nenv'.called = "_expand_env" => nenv'.env = ExpandedItems(<<>>, env.items)
          /\ nenv'.called = "_add_node" =>
                 /\ Len(nenv'.rendered) = Len(env.templates)
                 /\ \A i \in 1..Len(nenv'.rendered) :
                        ~HasPrefixed(nenv'.rendered[i].renv)]_vars

\* The pops made before allocate() came to process i of node n: those for nodes
\* placed earlier and for earlier processes of n.
PopsBefore(n, i) ==
    LET order == AllocationOrder(topo) IN
    {j \in 1..Len(popLog) :
        \/ IndexOf(order, popLog[j].node) < IndexOf(order, n)
        \/ popLog[j].node = n /\ popLog[j].proc < i}

\* The pops made for process i of node n.
PopsOf(n, i) == {j \in 1..Len(popLog) : popLog[j].node = n /\ popLog[j].proc = i}

\* The size of group g of the h-th phynode once the pops of `before` are made.
Remaining(h, g, before) ==
    Len(infra.cores[infra.phynodes[h]][g].ids)
        - Cardinality({j \in before : popLog[j].phynode = infra.phynodes[h] /\ popLog[j].group = g})

\* The (phynode index, group index) pairs of the core groups that hold at least `need`
\* cores once the pops of `before` are made.
GroupsThatFit(need, before) ==
    {c \in UNION {{<<h, g>> : g \in 1..Len(infra.cores[infra.phynodes[h]])} :
                      h \in 1..Len(infra.phynodes)} :
        /\ infra.cores[infra.phynodes[c[1]]][c[2]].isList
        /\ Remaining(c[1], c[2], before) >= need}

\* C17: in a placement, every pinned process is given cores from the first core group,
\* phynodes in inventory order and each phynode's groups in order, whose remaining size
\* is at least the process's own slot count, exactly that many; it is given none only
\* when no group is that large.
C17_FirstFitOnOwnCount ==
    Placed =>
        \A n \in Range(topo.nodes) : \A i \in 1..Len(topo.cfg[n].pinned) :
            LET need == PinnedGetNCores(topo.cfg[n].pinned[i])
                fits == GroupsThatFit(need, PopsBefore(n, i))
            IN IF fits = {} THEN PopsOf(n, i) = {}
               ELSE LET first == CHOOSE c \in fits : \A o \in fits :
                                     c[1] < o[1] \/ (c[1] = o[1] /\ c[2] <= o[2])
                    IN /\ Cardinality(PopsOf(n, i)) = need
                       /\ \A j \in PopsOf(n, i) :
                              /\ popLog[j].phynode = infra.phynodes[first[1]]
                              /\ popLog[j].group = first[2]

\* All cores popped for one process were popped from one core group of one phynode,
\* each is an ID that group holds, and they are the process's core list in the placement.
Locality ==
    /\ \A j, k \in 1..Len(popLog) :
           (popLog[j].node = popLog[k].node /\ popLog[j].proc = popLog[k].proc) =>
               popLog[j].phynode = popLog[k].phynode /\ popLog[j].group = popLog[k].group
    /\ \A j \in 1..Len(popLog) :
           LET numa == infra.cores[popLog[j].phynode][popLog[j].group] IN
           numa.isList /\ Contains(numa.ids, popLog[j].core)
    /\ \A e \in Entries :
           LET ids == allocation.map[e[1]].cores[e[2]] IN
           /\ Len(ids) = PinnedGetNCores(topo.cfg[e[1]].pinned[e[2]])
           /\ Range(ids) = {popLog[j].core : j \in PopsOf(e[1], e[2])}

\* C18: every call of allocate() completes without popping from an empty group, and
\* in every placement all core IDs of one pinned process come from a single core group
\* of a single phynode.
C18_Locality ==
    [][(nAllocs' # nAllocs => raised' = NoError) /\ Locality']_vars

\* C18 witness: a process was given two cores, both from the same group, on an
\* inventory that holds another core group.
C18_Witness ==
    /\ Placed /\ nAllocs >= 1 /\ raised = NoError
    /\ \E j, k \in 1..Len(popLog) :
           /\ j # k
           /\ popLog[j].node = popLog[k].node /\ popLog[j].proc = popLog[k].proc
           /\ popLog[j].phynode = popLog[k].phynode /\ popLog[j].group = popLog[k].group
           /\ \E p \in Range(infra.phynodes) : \E g \in 1..Len(infra.cores[p]) :
                  infra.cores[p][g].isList /\ <<p, g>> # <<popLog[j].phynode, popLog[j].group>>

\* The node a command of phase Nodes names.
NodeOf(cmd) == IF cmd.kind = "ip netns add" THEN cmd.node ELSE cmd.ns

\* The loopback addresses configured for node n.
LoOf(n) ==
    LET a == topo.cfg[n].addrs IN
    IF a.declared /\ "lo" \in DOMAIN a.ifs THEN a.ifs["lo"] ELSE <<>>

\* The commands of phase Nodes for node n in the claimed order: the namespace, one
\* address command per loopback address, loopback up, the execs, the sysctl writes.
NodesCommands(n) ==
    LET node == topo.cfg[n] IN
    <<[kind |-> "ip netns add", node |-> n]>>
    \o [i \in 1..Len(LoOf(n)) |->
           [kind |-> "ip", ns |-> n, cmd |-> [op |-> "a add", addr |-> LoOf(n)[i], dev |-> "lo"]]]
    \o <<[kind |-> "ip", ns |-> n, cmd |-> [op |-> "l set up", dev |-> "lo"]]>>
    \o [i \in 1..Len(node.execs) |->
           [kind |-> "netns_exec", ns |-> n, environ |-> <<>>,
            cmd |-> [op |-> "exec", text |-> node.execs[i], node |-> n]]]
    \o [i \in 1..Len(node.sysctls) |->
           [kind |-> "netns_exec", ns |-> n, environ |-> <<>>,
            cmd |-> [op |-> "sysctl -w", name |-> node.sysctls[i][1],
                     value |-> node.sysctls[i][2]]]]

IsPrefix(s, t) == Len(s) <= Len(t) /\ s = SubSeq(t, 1, Len(s))

\* The entries of a log for phase Nodes that name node n.
NodesEntries(log, n) ==
    SelectSeq(log, LAMBDA e : e.section = Nodes /\ NodeOf(e.cmd) = n)

PinnedEntries(log, n, i, op) ==
    SelectSeq(log, LAMBDA e : /\ e.cmd.kind = "netns_exec"
                              /\ e.cmd.cmd.op = op
                              /\ e.cmd.cmd.node = n /\ e.cmd.cmd.idx = i)

\* _node_pinned was called for process i of node n in the step: _add_node appended all
\* the Nodes commands of n and launched the processes of n before i.
PinnedCalled(n, i) ==
    /\ Len(NodesEntries(Appended, n)) = Len(NodesCommands(n))
    /\ \A k \in 1..(i - 1) : PinnedEntries(Appended, n, k, "taskset -c") # <<>>

NumericRank(environ, N) == 1 + Cardinality({M \in Range(environ) \cup {0} : M < N})

\* C21: in the launch command of a pinned process, every environment variable that
\* references slot core_N holds the core ID popped for the process at the position of N
\* among the referenced slots in ascending numeric order (core_0 the first popped ID),
\* whatever the order in which the templates reference the slots.
C21_SlotsInNumericOrder ==
    [][nBuilds' # nBuilds =>
          \A n \in Range(topo.nodes) : \A i \in 1..Len(topo.cfg[n].pinned) :
              LET launches == PinnedEntries(Appended, n, i, "taskset -c")
                  environ == topo.cfg[n].pinned[i].environ
                  ids == allocation'.map[n].cores[i]
              IN \A k \in 1..Len(launches) :
                     /\ launches[k].cmd.cmd.core = ids[1]
                     /\ Len(launches[k].cmd.environ) = Len(environ)
                     /\ \A v \in 1..Len(environ) :
                            launches[k].cmd.environ[v] = ids[NumericRank(environ, environ[v])]]_vars

\* An interface-up command for interface dev in the namespace of node ns.
IsUp(cmd, ns, dev) ==
    /\ cmd.kind = "ip"
    /\ cmd.ns = ns
    /\ cmd.cmd.op = "l set up"
    /\ cmd.cmd.dev = dev

\* C22: every call of _add_link for a link whose two ends are placed on different
\* phynodes returns, and leaves in the Links phase the shaping command of the head
\* interface on the head node's phynode and the interface-up command of each interface
\* on the phynode of the node that owns it.
C22_CrossHostLinks ==
    \A i \in 1..Len(linkCalls) :
        LET c == linkCalls[i] IN
        (/\ c.head_phynode # c.tail_phynode
         /\ {c.head_phynode, c.tail_phynode} \subseteq Range(infra.phynodes))
        => /\ c.returned
           /\ Count(Phase(c.head_phynode, Links),
                    LAMBDA cmd : IsShaping(cmd, c.head, c.key[1])) >= 1
           /\ Count(Phase(c.head_phynode, Links),
                    LAMBDA cmd : IsUp(cmd, c.head, c.key[1])) >= 1
           /\ Count(Phase(c.tail_phynode, Links),
                    LAMBDA cmd : IsUp(cmd, c.tail, c.key[2])) >= 1

\* The attributes C23 gives a link: its own fields, plus the declared link defaults for
\* the keys it does not declare.
ClaimedAttrs(own, defaults) ==
    LET dflt == IF defaults.declared /\ defaults.hasLinks THEN defaults.links ELSE NoAttrs
    IN [k \in DOMAIN own \cup DOMAIN dflt |-> IF k \in DOMAIN own THEN own[k] ELSE dflt[k]]

\* C23: construction from a document that has the topology sections and whose links all
\* have endpoints does not fail in _parse_links, whether or not link defaults are
\* declared; and in the constructed topology each link has its two directed edges,
\* head->tail keyed (head-iface, tail-iface) and tail->head keyed (tail-iface,
\* head-iface), both carrying the link's own fields plus the missing defaults.
C23_LinkDefaultsOptional ==
    (/\ stage # New
     /\ TopoSections(document)
     /\ \A i \in 1..Len(document.links) : document.links[i].hasEndpoints)
    => /\ stage # Failed
       /\ stage = Constructed =>
              \A i \in 1..Len(document.links) :
                  LET l == document.links[i].link
                      data == ClaimedAttrs(l.attrs, document.defaults)
                  IN /\ [head |-> l.head, tail |-> l.tail, key |-> <<l.hi, l.ti>>,
                         data |-> data] \in Range(topo.edges)
                     /\ [head |-> l.tail, tail |-> l.head, key |-> <<l.ti, l.hi>>,
                         data |-> data] \in Range(topo.edges)

\* C24: every key of the per-host config is a phynode the infrastructure declares: no
\* command is recorded under a missing host (None).
C24_ConfigKeysArePhynodes == DOMAIN configs \subseteq Range(infra.phynodes)
====
